---------------------------- MODULE Spec2Model ----------------------------
(***************************************************************************)
(* Model of 02_Knowledge_Bases_and_RAG/                                    *)
(* 2_managed-rag-with-retrieve-and-generate-api.ipynb.                     *)
(*                                                                         *)
(* The notebook is a thin client: five code cells executed one at a time   *)
(* by a single kernel.  The state is the kernel's namespace (the names the *)
(* cells assign), the kernel's output stream, and the traffic between the  *)
(* boto3 client and the RetrieveAndGenerate endpoint.  The endpoint itself *)
(* is opaque: each request is answered by a nondeterministic outcome.      *)
(***************************************************************************)
EXTENDS Naturals, Sequences, FiniteSets

VARIABLES
    imported,           \* cell 1 has run: boto3, Config, json are bound
    bedrock_kb_id,      \* restored by %store -r
    bedrock_agent_client, \* the client, carrying its retry configuration
    model_arn,          \* ARN built from the session's region
    user_query,         \* assigned by the query cell
    response,           \* the last response the query cell bound
    execution_count,    \* cells executed so far by the kernel
    pc,                 \* "idle" | "waiting" | "returned": the kernel's position
    run,                \* execution_count of the query cell now running
    attempt,            \* attempts made by the call now in flight
    sent,               \* requests put on the wire, in order
    replies,            \* outcomes the endpoint returned, in order
    stdout,             \* lines printed, in order
    executed            \* the kernel's history: per executed cell, which
                        \* cell it was and how it ended

vars == << imported, bedrock_kb_id, bedrock_agent_client, model_arn,
           user_query, response, execution_count, pc, run, attempt,
           sent, replies, stdout, executed >>

---------------------------------------------------------------------------
(* Bounds of the model. *)

\* Cells the kernel executes in one behaviour.
MaxExec == 6

\* Distinct knowledge base ids the store may hold.
NumKbs == 1

\* Distinct answer texts the endpoint may return.
NumTexts == 2

---------------------------------------------------------------------------
(* Values. *)

\* A name not bound in the kernel's namespace, and a name bound to v.
Undefined == << >>

Bound(v) == << v >>

\* No sessionId among a request's fields.
NoSession == 0

KbIds == 1 .. NumKbs

Texts == 1 .. NumTexts

\* boto_session.region_name
Regions == {"us-east-1", "us-west-2"}

\* What a response's "citations" list can be: empty or with references.
Citations == {"empty", "refs"}

\* retries={'max_attempts': 0}
max_attempts == 0

\* A client configured with retries={'max_attempts': 1}: one automatic retry.
bedrock_config_retrying == [max_attempts |-> max_attempts + 1]

\* Config(connect_timeout=120, read_timeout=120, retries=...), handed to
\* boto3.client('bedrock-agent-runtime', config=bedrock_config)
bedrock_config == [max_attempts |-> max_attempts]

\* model_id = 'amazon.nova-micro-v1:0'
model_id == "amazon.nova-micro-v1:0"

\* user_query = "How does Amazon use technology ..."
QueryText == "How does Amazon use technology to better serve its customers?"

\* How a call to the endpoint can end: a response, or an error that is
\* transient (throttling, read/connect timeout) or not (rejected request).
Outcomes == {"ok", "throttled", "timeout", "rejected"}

Retryable == {"throttled", "timeout"}

\* The exception the client raises for a failed call.
Raised(outcome) == IF outcome = "timeout" THEN "ReadTimeoutError"
                                          ELSE "ClientError"

\* The keyword arguments of retrieve_and_generate as the cell writes them:
\* input.text, knowledgeBaseId, modelArn, and no sessionId.
BuildRequest(q, kb, arn) ==
    [text |-> q, knowledgeBaseId |-> kb, modelArn |-> arn,
     sessionId |-> NoSession]

\* One printed line: the executing cell, the label, the printed value.
Line(cell, label, value) == [cell |-> cell, label |-> label, value |-> value]

\* The kernel's record of one executed cell.
Cell(name, ended) == [cell |-> name, ended |-> ended]

---------------------------------------------------------------------------
(* The kernel after start-up: nothing bound, nothing executed. *)

Init ==
    /\ imported = FALSE
    /\ bedrock_kb_id = Undefined
    /\ bedrock_agent_client = Undefined
    /\ model_arn = Undefined
    /\ user_query = Undefined
    /\ response = Undefined
    /\ execution_count = 0
    /\ pc = "idle"
    /\ run = 0
    /\ attempt = 0
    /\ sent = << >>
    /\ replies = << >>
    /\ stdout = << >>
    /\ executed = << >>

\* The kernel takes the next cell only when no cell is running.
CanRun == pc = "idle" /\ execution_count < MaxExec

---------------------------------------------------------------------------
(* Cell 1: imports, then two version prints. *)

RunImports ==
    /\ CanRun
    /\ execution_count' = execution_count + 1
    /\ imported' = TRUE
    /\ stdout' = stdout \o << Line(execution_count', "Python version:", << >>),
                             Line(execution_count', "Boto3 SDK version:", << >>) >>
    /\ executed' = Append(executed, Cell("imports", "ok"))
    /\ UNCHANGED << bedrock_kb_id, bedrock_agent_client, model_arn, user_query,
                    response, pc, run, attempt, sent, replies >>

(* Cell 2: %store -r bedrock_kb_id. *)

RunStoreRestore ==
    /\ CanRun
    /\ execution_count' = execution_count + 1
    /\ \E kb \in KbIds : bedrock_kb_id' = Bound(kb)
    /\ executed' = Append(executed, Cell("store", "ok"))
    /\ UNCHANGED << imported, bedrock_agent_client, model_arn, user_query,
                    response, pc, run, attempt, sent, replies, stdout >>

(* Cell 3: session, region, config, client, model ARN, two prints.  The    *)
(* first statement needs boto3; the last print needs bedrock_kb_id.        *)

RunSetup ==
    /\ CanRun
    /\ execution_count' = execution_count + 1
    /\ IF ~imported
         THEN /\ executed' = Append(executed, Cell("setup", "NameError"))
              /\ UNCHANGED << bedrock_agent_client, model_arn, stdout >>
         ELSE \E region \in Regions :
              /\ bedrock_agent_client' = Bound(bedrock_config)
              /\ model_arn' = Bound([region |-> region, model |-> model_id])
              /\ IF bedrock_kb_id = Undefined
                   THEN /\ stdout' = Append(stdout,
                              Line(execution_count', "AWS Region:", << region >>))
                        /\ executed' = Append(executed, Cell("setup", "NameError"))
                   ELSE /\ stdout' = stdout \o
                              << Line(execution_count', "AWS Region:", << region >>),
                                 Line(execution_count', "Bedrock Knowledge Base ID:",
                                      bedrock_kb_id) >>
                        /\ executed' = Append(executed, Cell("setup", "ok"))
    /\ UNCHANGED << imported, bedrock_kb_id, user_query, response, pc, run,
                    attempt, sent, replies >>

---------------------------------------------------------------------------
(* Cell 4: the query cell.  It binds user_query, looks up the client, the  *)
(* knowledge base id and the model ARN, and puts one request on the wire.  *)

RunQuery ==
    /\ CanRun
    /\ execution_count' = execution_count + 1
    /\ user_query' = Bound(QueryText)
    /\ IF bedrock_agent_client = Undefined \/ bedrock_kb_id = Undefined
            \/ model_arn = Undefined
         THEN /\ executed' = Append(executed, Cell("query", "NameError"))
              /\ UNCHANGED << pc, run, attempt, sent >>
         ELSE /\ executed' = Append(executed, Cell("query", "running"))
              /\ pc' = "waiting"
              /\ run' = execution_count'
              /\ attempt' = 1
              /\ sent' = Append(sent,
                     [run |-> execution_count', attempt |-> 1,
                      req |-> BuildRequest(QueryText, bedrock_kb_id[1],
                                           model_arn[1])])
    /\ UNCHANGED << imported, bedrock_kb_id, bedrock_agent_client, model_arn,
                    response, replies, stdout >>

\* The request now in flight.
InFlight == sent[Len(sent)]

\* The session the endpoint answers in: the one the request names, or a
\* new one when the request names none.
SessionFor(req) == IF req.sessionId = NoSession THEN Len(replies) + 1
                                                ELSE req.sessionId

(* The endpoint answers the request in flight and the client acts on the   *)
(* answer: a response is bound to `response`; a transient error is         *)
(* re-sent while the client's max_attempts allows; any other error, or a   *)
(* transient one with no attempt left, is raised and ends the cell.        *)

EndpointReply ==
    /\ pc = "waiting"
    /\ \E outcome \in Outcomes, text \in Texts, cites \in Citations :
         LET body == [text |-> text, citations |-> cites,
                      sessionId |-> SessionFor(InFlight.req)]
         IN  IF outcome = "ok"
               THEN /\ replies' = Append(replies,
                           [run |-> run, attempt |-> attempt,
                            outcome |-> outcome, body |-> Bound(body)])
                    /\ response' = Bound(body)
                    /\ pc' = "returned"
                    /\ UNCHANGED << attempt, sent, executed >>
               ELSE /\ replies' = Append(replies,
                           [run |-> run, attempt |-> attempt,
                            outcome |-> outcome, body |-> Undefined])
                    /\ IF outcome \in Retryable
                          /\ attempt <= bedrock_agent_client[1].max_attempts
                         THEN /\ attempt' = attempt + 1
                              /\ sent' = Append(sent,
                                     [InFlight EXCEPT !.attempt = attempt + 1])
                              /\ UNCHANGED << pc, executed >>
                         ELSE /\ pc' = "idle"
                              /\ executed' = [executed EXCEPT
                                     ![run] = Cell("query", Raised(outcome))]
                              /\ UNCHANGED << attempt, sent >>
                    /\ UNCHANGED response
    /\ UNCHANGED << imported, bedrock_kb_id, bedrock_agent_client, model_arn,
                    user_query, execution_count, run, stdout >>

(* The last statement of the query cell: print the response's text. *)

PrintReply ==
    /\ pc = "returned"
    /\ stdout' = Append(stdout,
           Line(run, "Final reply:", << response[1].text >>))
    /\ executed' = [executed EXCEPT ![run] = Cell("query", "ok")]
    /\ pc' = "idle"
    /\ UNCHANGED << imported, bedrock_kb_id, bedrock_agent_client, model_arn,
                    user_query, response, execution_count, run, attempt,
                    sent, replies >>

---------------------------------------------------------------------------
(* Cell 5: print the citations of `response`; needs json and response. *)

RunCitations ==
    /\ CanRun
    /\ execution_count' = execution_count + 1
    /\ IF ~imported \/ response = Undefined
         THEN /\ executed' = Append(executed, Cell("citations", "NameError"))
              /\ UNCHANGED stdout
         ELSE /\ stdout' = Append(stdout,
                     Line(execution_count', "Citations:",
                          << response[1].citations >>))
              /\ executed' = Append(executed, Cell("citations", "ok"))
    /\ UNCHANGED << imported, bedrock_kb_id, bedrock_agent_client, model_arn,
                    user_query, response, pc, run, attempt, sent, replies >>

---------------------------------------------------------------------------

Next ==
    \/ RunImports
    \/ RunStoreRestore
    \/ RunSetup
    \/ RunQuery
    \/ EndpointReply
    \/ PrintReply
    \/ RunCitations

Spec == Init /\ [][Next]_vars

---------------------------------------------------------------------------
(* Properties. *)

\* The requests put on the wire by the cell executed as number r.
SentFor(r) == { i \in 1 .. Len(sent) : sent[i].run = r }

\* A run of the query cell that got as far as the call.
Called(r) == executed[r].cell = "query" /\ executed[r].ended # "NameError"

\* Each run of the query cell that reaches the call puts exactly one request
\* on the wire, and no other cell puts any.
OneRequestPerRun ==
    \A r \in 1 .. Len(executed) :
        Cardinality(SentFor(r)) = IF Called(r) THEN 1 ELSE 0

\* A failed call is not sent again: its error ends the cell.
FailureIsRaised ==
    \A i \in 1 .. Len(replies) :
        replies[i].outcome # "ok" =>
            executed[replies[i].run].ended = Raised(replies[i].outcome)

\* A request carries the query text, the knowledge base id and the model
\* ARN, and names no session, whatever earlier responses the kernel holds.
RequestHasNoSession ==
    \A i \in 1 .. Len(sent) :
        /\ sent[i].req.text = QueryText
        /\ sent[i].req.knowledgeBaseId \in KbIds
        /\ sent[i].req.modelArn.model = model_id
        /\ sent[i].req.modelArn.region \in Regions
        /\ sent[i].req.sessionId = NoSession

\* No two responses belong to the same session: every call starts afresh.
NoSessionCarried ==
    \A i, j \in 1 .. Len(replies) :
        (i < j /\ replies[i].outcome = "ok" /\ replies[j].outcome = "ok") =>
            replies[i].body[1].sessionId # replies[j].body[1].sessionId

\* The response a cell executed as number c finds bound to `response`: the
\* i-th reply, when it is the last response returned before c.
LastResponseBefore(i, c) ==
    /\ replies[i].outcome = "ok"
    /\ replies[i].run < c
    /\ \A j \in 1 .. Len(replies) :
         (replies[j].outcome = "ok" /\ replies[j].run < c) => j <= i

\* A printed reply is the text of a response returned to the same run, and
\* printed citations are those of the last response returned before.
PrintedAfterReturn ==
    \A k \in 1 .. Len(stdout) :
        /\ stdout[k].label = "Final reply:" =>
              \E i \in 1 .. Len(replies) :
                  /\ replies[i].run = stdout[k].cell
                  /\ replies[i].outcome = "ok"
                  /\ replies[i].body[1].text = stdout[k].value[1]
        /\ stdout[k].label = "Citations:" =>
              \E i \in 1 .. Len(replies) :
                  /\ LastResponseBefore(i, stdout[k].cell)
                  /\ replies[i].body[1].citations = stdout[k].value[1]

\* C10: each run of the query cell sends exactly one retrieve_and_generate
\* request and a failed call is raised, not re-sent (max_attempts 0); the
\* request carries the query text, the knowledge base id and the model ARN
\* and no session identifier, so no two calls share a session; the reply
\* text and the citations are printed only after a response was returned.
C10_OneStatelessCallPerRun ==
    /\ OneRequestPerRun
    /\ FailureIsRaised
    /\ RequestHasNoSession
    /\ NoSessionCarried
    /\ PrintedAfterReturn

\* Witness of C10: a run of the query cell returned and printed its reply,
\* the citations cell printed that response's citations, and a later run of
\* the query cell, made while that response was still bound, sent one
\* request without a session, met a transient error and raised it.
C10_Witness ==
    \E r1, r2 \in 1 .. Len(executed) :
        /\ r1 < r2
        /\ executed[r1] = Cell("query", "ok")
        /\ executed[r2].cell = "query"
        /\ executed[r2].ended \in {"ClientError", "ReadTimeoutError"}
        /\ \E i \in 1 .. Len(replies) :
               replies[i].run = r2 /\ replies[i].outcome \in Retryable
        /\ Cardinality(SentFor(r1)) = 1
        /\ Cardinality(SentFor(r2)) = 1
        /\ response # Undefined
        /\ \E k \in 1 .. Len(stdout) :
               stdout[k].label = "Final reply:" /\ stdout[k].cell = r1
        /\ \E k \in 1 .. Len(stdout) :
               stdout[k].label = "Citations:" /\ stdout[k].cell > r1

===========================================================================
